---- MODULE Spec2Model ----
(***************************************************************************)
(* Leave-management canister (src/src/index.ts).                           *)
(*                                                                         *)
(* Two keyed stores, userStorage and leaveStorage, and the twelve entry    *)
(* points that read and write them.  Every entry point runs to completion  *)
(* before the next one starts, so each is one action.                      *)
(*                                                                         *)
(* Modelling conventions                                                   *)
(*  - Identifiers are integers.  0 stands for a string that is not a UUID; *)
(*    every positive integer is a well-formed UUID.  uuidv4() hands out    *)
(*    identifiers that were never handed out before: users get             *)
(*    1 .. MaxUsers, leaves get MaxUsers+1 .. MaxUsers+MaxLeaves.          *)
(*  - Instants are whole hours counted from the first instant of the       *)
(*    current calendar year of the host clock, so an instant is in the     *)
(*    current year iff it lies in 0 .. YearLength-1.                       *)
(*  - availableDays and days are integers (float64 in the interface).      *)
(*  - createdAt / updatedAt are written and never read; they are left out. *)
(*  - The record field id equals the key under which a record is stored.   *)
(***************************************************************************)
EXTENDS Integers, FiniteSets, TLC

\* ------------------------------------------------------------------ bounds
MaxUsers   == 2      \* users ever created
MaxLeaves  == 2      \* leave requests ever created
MaxCalls   == 4      \* entry-point calls explored in one run

\* -------------------------------------------------------- program constants
DEFAULT_AVAILABLE_DAYS == 21
oneDay     == 24     \* 24 * 60 * 60 * 1000 ms, in hours
YearLength == 8760   \* hours of the current calendar year

PENDING  == "PENDING"
APPROVED == "APPROVED"
REJECTED == "REJECTED"
LeaveStatus == {PENDING, APPROVED, REJECTED}

MalformedId == 0     \* stands for every string isValidUUID refuses

\* ------------------------------------------------------------------ inputs
Ids       == 0 .. (MaxUsers + MaxLeaves)
\* what the calls are tried with: the malformed identifier, every identifier
\* the store at hand can hold, and one well-formed identifier it never holds
UserIds   == 0 .. (MaxUsers + 1)
LeaveIds  == {MalformedId} \cup (MaxUsers .. (MaxUsers + MaxLeaves))
AvailableDaysInputs == {0, 2, 3}
\* UserPayload: availableDays is optional (index.ts:35-39)
UserPayloads ==
  [name : {"n"}, email : {"a", "b"}] \cup
  [name : {"n"}, email : {"a", "b"}, availableDays : AvailableDaysInputs] \cup
  {[name |-> "", email |-> "a"], [name |-> "n", email |-> ""]}
\* LeavePayload: ranges inside the current year, one reaching into the next
\* year, one starting in the previous year, one empty and one reversed
Range(s, e) == [startDate |-> s, endDate |-> e]
InYearDates == {0, 24, 36, 60}
LeavePayloads ==
  {p \in [startDate : InYearDates, endDate : InYearDates] :
     p.startDate < p.endDate} \cup
  {Range(60, YearLength), Range(-24, 24), Range(24, 24), Range(24, 0)}
StatusInputs == LeaveStatus \cup {"CANCELLED"}

VARIABLES
  userStorage,   \* id -> [name, email, availableDays]
  leaveStorage,  \* id -> [userId, startDate, endDate, days, status]
  issuedUsers,   \* number of user ids uuidv4 has handed out
  issuedLeaves,  \* number of leave ids uuidv4 has handed out
  calls,         \* number of entry-point calls so far
  last           \* the last call: entry point and what it answered

vars == <<userStorage, leaveStorage, issuedUsers, issuedLeaves, calls, last>>
stores == <<userStorage, leaveStorage>>

\* --------------------------------------------------------- store primitives
Insert(map, key, value) ==
  [k \in DOMAIN map \cup {key} |-> IF k = key THEN value ELSE map[k]]

Remove(map, key) == [k \in DOMAIN map \ {key} |-> map[k]]

Has(map, key) == key \in DOMAIN map

\* a validator that lets every string through
isValidUUID_Any(id) == TRUE

isValidUUID(id) == id # MalformedId

Truthy(text) == text # ""

Ok == "Ok"
\* op: the entry point; res: the result tag; ret: the identifiers of the
\* records answered; bal: the owner's availableDays as a successful
\* requestLeave or updateLeaveStatus found it
Call(op, res, ret, bal) == [op |-> op, res |-> res, ret |-> ret, bal |-> bal]

\* ---------------------------------------------------------- user management
\* An entry point is an operator from the stores and its arguments to the
\* result tag (res) and the stores it leaves behind (users, leaves).

getUser(users, id) ==
  IF ~isValidUUID(id) THEN "InvalidUserId"
  ELSE IF Has(users, id) THEN Ok
  ELSE "UserNotFound"

EmailTaken(users, email) == \E u \in DOMAIN users : users[u].email = email

addUser(users, newId, payload) ==
  IF ~Truthy(payload.name) \/ ~Truthy(payload.email)
    THEN [res |-> "NameEmailRequired", users |-> users]
  ELSE IF EmailTaken(users, payload.email)
    THEN [res |-> "EmailExists", users |-> users]
  ELSE LET availableDays ==
             IF "availableDays" \in DOMAIN payload THEN payload.availableDays
             ELSE DEFAULT_AVAILABLE_DAYS
           user == [name |-> payload.name, email |-> payload.email,
                    availableDays |-> availableDays]
       IN [res |-> Ok, users |-> Insert(users, newId, user)]

updateUser(users, id, payload) ==
  IF ~isValidUUID(id)
    THEN [res |-> "InvalidUserId", users |-> users]
  ELSE IF ~Truthy(payload.name) \/ ~Truthy(payload.email)
    THEN [res |-> "NameEmailEmpty", users |-> users]
  ELSE IF Has(users, id)
    THEN [res |-> Ok, users |-> Insert(users, id, payload @@ users[id])]
  ELSE [res |-> "UserNotFound", users |-> users]

deleteUser(users, id) ==
  IF ~isValidUUID(id) THEN [res |-> "InvalidUserId", users |-> users]
  ELSE IF Has(users, id) THEN [res |-> Ok, users |-> Remove(users, id)]
  ELSE [res |-> "UserNotFound", users |-> users]

\* ----------------------------------------------------------------- helpers
Abs(x) == IF x < 0 THEN -x ELSE x

Max(a, b) == IF a >= b THEN a ELSE b

\* rounding that drops the fraction
Round_Floor(n, d) == n \div d

\* Math.round(n / d) for n >= 0, d > 0: nearest integer, halves go up
Round(n, d) == (2 * n + d) \div (2 * d)

findDiffInDays(startDate, endDate) ==
  LET diffDays == Round(Abs(endDate - startDate), oneDay)
  IN Max(1, diffDays)

\* the ledger testing only that the user exists
updateUsersAvailableDays_NoZeroTest(users, userId, leaveDays, operation) ==
  IF ~isValidUUID(userId)
    THEN [res |-> "InvalidUserId", users |-> users]
  ELSE IF getUser(users, userId) # Ok
    THEN [res |-> "CouldNotUpdate", users |-> users]
  ELSE LET availableDays ==
             IF operation = "ADD" THEN users[userId].availableDays + leaveDays
             ELSE IF operation = "SUBTRACT"
               THEN users[userId].availableDays - leaveDays
             ELSE users[userId].availableDays
       IN updateUser(users, userId,
                     [users[userId] EXCEPT !.availableDays = availableDays])

\* the ledger with credit and debit exchanged
updateUsersAvailableDays_Swapped(users, userId, leaveDays, operation) ==
  IF ~isValidUUID(userId)
    THEN [res |-> "InvalidUserId", users |-> users]
  ELSE IF getUser(users, userId) # Ok \/ users[userId].availableDays = 0
    THEN [res |-> "CouldNotUpdate", users |-> users]
  ELSE LET availableDays ==
             IF operation = "ADD" THEN users[userId].availableDays - leaveDays
             ELSE users[userId].availableDays + leaveDays
       IN updateUser(users, userId,
                     [users[userId] EXCEPT !.availableDays = availableDays])

updateUsersAvailableDays(users, userId, leaveDays, operation) ==
  IF ~isValidUUID(userId)
    THEN [res |-> "InvalidUserId", users |-> users]
  ELSE IF getUser(users, userId) # Ok \/ users[userId].availableDays = 0
    THEN [res |-> "CouldNotUpdate", users |-> users]
  ELSE LET availableDays ==
             IF operation = "ADD" THEN users[userId].availableDays + leaveDays
             ELSE IF operation = "SUBTRACT"
               THEN users[userId].availableDays - leaveDays
             ELSE users[userId].availableDays
       IN updateUser(users, userId,
                     [users[userId] EXCEPT !.availableDays = availableDays])

\* --------------------------------------------------------- leave management
\* Date.getFullYear, as years after the current year of the host clock
getFullYear(date) == date \div YearLength

currentYear == getFullYear(0)

\* requestLeave's test of the balance, off by one
ExceedsAvailableDays_OffByOne(availableDays, diffDays) ==
  availableDays + 1 < diffDays

\* requestLeave's test of the balance
ExceedsAvailableDays(availableDays, diffDays) == availableDays < diffDays

\* the overlap test with ranges that only touch let through
Overlaps_Touching(startDate, endDate, currentLeave) ==
  ~(endDate <= currentLeave.startDate \/ startDate >= currentLeave.endDate)

\* the test of requestLeave's leaves.some(...)
Overlaps(startDate, endDate, currentLeave) ==
  ~(endDate < currentLeave.startDate \/ startDate > currentLeave.endDate)

\* an overlap check that passes over rejected requests
isOverlapping_SkipRejected(leaves, userId, startDate, endDate) ==
  \E l \in DOMAIN leaves :
    /\ leaves[l].userId = userId
    /\ leaves[l].status # REJECTED
    /\ Overlaps(startDate, endDate, leaves[l])

isOverlapping(leaves, userId, startDate, endDate) ==
  \E l \in DOMAIN leaves :
    /\ leaves[l].userId = userId
    /\ Overlaps(startDate, endDate, leaves[l])

\* the overlap check made before the balance check
requestLeave_OverlapFirst(users, leaves, newId, userId, payload) ==
  LET startDate == payload.startDate
      endDate   == payload.endDate
      diffDays  == findDiffInDays(startDate, endDate)
      Err(e)    == [res |-> e, users |-> users, leaves |-> leaves]
  IN
  IF ~isValidUUID(userId) THEN Err("InvalidUserId")
  ELSE IF getUser(users, userId) # Ok THEN Err("UserNotFoundForLeave")
  ELSE IF startDate >= endDate THEN Err("StartBeforeEnd")
  ELSE IF getFullYear(startDate) # currentYear \/ getFullYear(endDate) # currentYear
    THEN Err("NotCurrentYear")
  ELSE IF diffDays < 1 THEN Err("AtLeastOneDay")
  ELSE IF isOverlapping(leaves, userId, startDate, endDate) THEN Err("Overlap")
  ELSE IF ExceedsAvailableDays(users[userId].availableDays, diffDays)
    THEN Err("ExceedingAvailableDays")
  ELSE LET leave == [userId |-> userId, status |-> PENDING, days |-> diffDays,
                     startDate |-> startDate, endDate |-> endDate]
       IN [res |-> Ok,
           leaves |-> Insert(leaves, newId, leave),
           users |-> updateUsersAvailableDays(users, userId, diffDays,
                                              "SUBTRACT").users]

requestLeave(users, leaves, newId, userId, payload) ==
  LET startDate == payload.startDate
      endDate   == payload.endDate
      diffDays  == findDiffInDays(startDate, endDate)
      Err(e)    == [res |-> e, users |-> users, leaves |-> leaves]
  IN
  IF ~isValidUUID(userId) THEN Err("InvalidUserId")
  ELSE IF getUser(users, userId) # Ok THEN Err("UserNotFoundForLeave")
  ELSE IF startDate >= endDate THEN Err("StartBeforeEnd")
  ELSE IF getFullYear(startDate) # currentYear \/ getFullYear(endDate) # currentYear
    THEN Err("NotCurrentYear")
  ELSE IF diffDays < 1 THEN Err("AtLeastOneDay")
  ELSE IF ExceedsAvailableDays(users[userId].availableDays, diffDays)
    THEN Err("ExceedingAvailableDays")
  ELSE IF isOverlapping(leaves, userId, startDate, endDate) THEN Err("Overlap")
  ELSE LET leave == [userId |-> userId, status |-> PENDING, days |-> diffDays,
                     startDate |-> startDate, endDate |-> endDate]
       IN [res |-> Ok,
           leaves |-> Insert(leaves, newId, leave),
           users |-> updateUsersAvailableDays(users, userId, diffDays,
                                              "SUBTRACT").users]

\* an edit that checks the year as requestLeave does
updateLeave_Revalidating(leaves, id, payload) ==
  IF ~isValidUUID(id) THEN [res |-> "InvalidLeaveId", leaves |-> leaves]
  ELSE IF Has(leaves, id)
    THEN LET diffDays == findDiffInDays(payload.startDate, payload.endDate)
         IN IF \/ getFullYear(payload.startDate) # currentYear
               \/ getFullYear(payload.endDate) # currentYear
              THEN [res |-> "NotCurrentYear", leaves |-> leaves]
              ELSE [res |-> Ok,
                    leaves |-> Insert(leaves, id,
                                 [leaves[id] EXCEPT !.startDate = payload.startDate,
                                                    !.endDate = payload.endDate,
                                                    !.days = diffDays])]
  ELSE [res |-> "LeaveNotFound", leaves |-> leaves]

updateLeave(leaves, id, payload) ==
  IF ~isValidUUID(id) THEN [res |-> "InvalidLeaveId", leaves |-> leaves]
  ELSE IF Has(leaves, id)
    THEN LET diffDays == findDiffInDays(payload.startDate, payload.endDate)
         IN IF diffDays < 1
              THEN [res |-> "AtLeastOneDay", leaves |-> leaves]
              ELSE [res |-> Ok,
                    leaves |-> Insert(leaves, id,
                                 [leaves[id] EXCEPT !.startDate = payload.startDate,
                                                    !.endDate = payload.endDate,
                                                    !.days = diffDays])]
  ELSE [res |-> "LeaveNotFound", leaves |-> leaves]

\* a deletion that answers Ok and keeps the request
deleteLeave_Keep(leaves, id) ==
  IF ~isValidUUID(id) THEN [res |-> "InvalidLeaveId", leaves |-> leaves]
  ELSE IF Has(leaves, id) THEN [res |-> Ok, leaves |-> leaves]
  ELSE [res |-> "LeaveNotFound", leaves |-> leaves]

deleteLeave(leaves, id) ==
  IF ~isValidUUID(id) THEN [res |-> "InvalidLeaveId", leaves |-> leaves]
  ELSE IF Has(leaves, id) THEN [res |-> Ok, leaves |-> Remove(leaves, id)]
  ELSE [res |-> "LeaveNotFound", leaves |-> leaves]

\* a transition that writes the status and then answers what the ledger answers
updateLeaveStatus_ReportsLedger(users, leaves, id, status) ==
  IF ~isValidUUID(id)
    THEN [res |-> "InvalidLeaveId", users |-> users, leaves |-> leaves]
  ELSE IF Has(leaves, id)
    THEN LET leave == leaves[id]
             adjusted == updateUsersAvailableDays(users, leave.userId, leave.days,
                           IF status = REJECTED THEN "ADD" ELSE "SUBTRACT")
         IN [res |-> adjusted.res,
             leaves |-> Insert(leaves, id, [leave EXCEPT !.status = status]),
             users |-> adjusted.users]
  ELSE [res |-> "LeaveNotFound", users |-> users, leaves |-> leaves]

\* a transition allowed from PENDING only
updateLeaveStatus_Guarded(users, leaves, id, status) ==
  IF ~isValidUUID(id)
    THEN [res |-> "InvalidLeaveId", users |-> users, leaves |-> leaves]
  ELSE IF Has(leaves, id) /\ leaves[id].status # PENDING
    THEN [res |-> "NotPending", users |-> users, leaves |-> leaves]
  ELSE IF Has(leaves, id)
    THEN LET leave == leaves[id]
         IN [res |-> Ok,
             leaves |-> Insert(leaves, id, [leave EXCEPT !.status = status]),
             users |-> IF status = REJECTED
                         THEN updateUsersAvailableDays(users, leave.userId,
                                                       leave.days, "ADD").users
                         ELSE updateUsersAvailableDays(users, leave.userId,
                                                       leave.days, "SUBTRACT").users]
  ELSE [res |-> "LeaveNotFound", users |-> users, leaves |-> leaves]

updateLeaveStatus(users, leaves, id, status) ==
  IF ~isValidUUID(id)
    THEN [res |-> "InvalidLeaveId", users |-> users, leaves |-> leaves]
  ELSE IF Has(leaves, id)
    THEN LET leave == leaves[id]
         IN [res |-> Ok,
             leaves |-> Insert(leaves, id, [leave EXCEPT !.status = status]),
             users |-> IF status = REJECTED
                         THEN updateUsersAvailableDays(users, leave.userId,
                                                       leave.days, "ADD").users
                         ELSE updateUsersAvailableDays(users, leave.userId,
                                                       leave.days, "SUBTRACT").users]
  ELSE [res |-> "LeaveNotFound", users |-> users, leaves |-> leaves]

\* ------------------------------------------------------------------ queries
\* the filter's parameter { userId } shadows the function's parameter userId
getUsersLeaveRequests(leaves, userId) ==
  IF ~isValidUUID(userId) THEN [res |-> "InvalidUserId", ret |-> {}]
  ELSE [res |-> Ok,
        ret |-> {l \in DOMAIN leaves : leaves[l].userId = leaves[l].userId}]

\* ------------------------------------------------------------------ actions
\* One action per entry point.  A call that would need a fresh identifier
\* beyond the explored ones, or a call beyond MaxCalls, is not explored.
Init ==
  /\ userStorage = <<>>
  /\ leaveStorage = <<>>
  /\ issuedUsers = 0
  /\ issuedLeaves = 0
  /\ calls = 0
  /\ last = Call("init", Ok, {}, {})

Balance(users, id) == IF Has(users, id) THEN {users[id].availableDays} ELSE {}

OwnerBalance(users, leaves, id) ==
  IF Has(leaves, id) THEN Balance(users, leaves[id].userId) ELSE {}

Returned(res, id) == IF res = Ok THEN {id} ELSE {}

Counted == calls < MaxCalls /\ calls' = calls + 1

GetUser(id) ==
  LET res == getUser(userStorage, id) IN
  /\ Counted
  /\ last' = Call("getUser", res, Returned(res, id), {})
  /\ UNCHANGED <<userStorage, leaveStorage, issuedUsers, issuedLeaves>>

AddUser(payload) ==
  LET newId == issuedUsers + 1
      r == addUser(userStorage, newId, payload) IN
  /\ Counted
  /\ r.res = Ok => issuedUsers < MaxUsers
  /\ userStorage' = r.users
  /\ issuedUsers' = IF r.res = Ok THEN newId ELSE issuedUsers
  /\ last' = Call("addUser", r.res, Returned(r.res, newId), {})
  /\ UNCHANGED <<leaveStorage, issuedLeaves>>

UpdateUser(id, payload) ==
  LET r == updateUser(userStorage, id, payload) IN
  /\ Counted
  /\ userStorage' = r.users
  /\ last' = Call("updateUser", r.res, Returned(r.res, id), {})
  /\ UNCHANGED <<leaveStorage, issuedUsers, issuedLeaves>>

DeleteUser(id) ==
  LET r == deleteUser(userStorage, id) IN
  /\ Counted
  /\ userStorage' = r.users
  /\ last' = Call("deleteUser", r.res, Returned(r.res, id), {})
  /\ UNCHANGED <<leaveStorage, issuedUsers, issuedLeaves>>

GetUsersLeaveRequests(userId) ==
  LET r == getUsersLeaveRequests(leaveStorage, userId) IN
  /\ Counted
  /\ last' = Call("getUsersLeaveRequests", r.res, r.ret, {})
  /\ UNCHANGED <<userStorage, leaveStorage, issuedUsers, issuedLeaves>>

RequestLeave(userId, payload) ==
  LET newId == MaxUsers + issuedLeaves + 1
      r == requestLeave(userStorage, leaveStorage, newId, userId, payload) IN
  /\ Counted
  /\ r.res = Ok => issuedLeaves < MaxLeaves
  /\ userStorage' = r.users
  /\ leaveStorage' = r.leaves
  /\ issuedLeaves' = IF r.res = Ok THEN issuedLeaves + 1 ELSE issuedLeaves
  /\ last' = Call("requestLeave", r.res, Returned(r.res, newId),
                  IF r.res = Ok THEN Balance(userStorage, userId) ELSE {})
  /\ UNCHANGED issuedUsers

UpdateLeave(id, payload) ==
  LET r == updateLeave(leaveStorage, id, payload) IN
  /\ Counted
  /\ leaveStorage' = r.leaves
  /\ last' = Call("updateLeave", r.res, Returned(r.res, id), {})
  /\ UNCHANGED <<userStorage, issuedUsers, issuedLeaves>>

DeleteLeave(id) ==
  LET r == deleteLeave(leaveStorage, id) IN
  /\ Counted
  /\ leaveStorage' = r.leaves
  /\ last' = Call("deleteLeave", r.res, Returned(r.res, id), {})
  /\ UNCHANGED <<userStorage, issuedUsers, issuedLeaves>>

UpdateLeaveStatus(id, status) ==
  LET r == updateLeaveStatus(userStorage, leaveStorage, id, status) IN
  /\ Counted
  /\ userStorage' = r.users
  /\ leaveStorage' = r.leaves
  /\ last' = Call("updateLeaveStatus", r.res, Returned(r.res, id),
                  OwnerBalance(userStorage, leaveStorage, id))
  /\ UNCHANGED <<issuedUsers, issuedLeaves>>

Next ==
  \/ \E id \in UserIds : GetUser(id)
  \/ \E payload \in UserPayloads : AddUser(payload)
  \/ \E id \in UserIds, payload \in UserPayloads : UpdateUser(id, payload)
  \/ \E id \in UserIds : DeleteUser(id)
  \/ \E userId \in UserIds : GetUsersLeaveRequests(userId)
  \/ \E userId \in UserIds, payload \in LeavePayloads :
       RequestLeave(userId, payload)
  \/ \E id \in LeaveIds, payload \in LeavePayloads : UpdateLeave(id, payload)
  \/ \E id \in LeaveIds : DeleteLeave(id)
  \/ \E id \in LeaveIds, status \in StatusInputs : UpdateLeaveStatus(id, status)

Spec == Init /\ [][Next]_vars

\* the service without updateLeave
NextNoEdit ==
  \/ \E id \in UserIds : GetUser(id)
  \/ \E payload \in UserPayloads : AddUser(payload)
  \/ \E id \in UserIds, payload \in UserPayloads : UpdateUser(id, payload)
  \/ \E id \in UserIds : DeleteUser(id)
  \/ \E userId \in UserIds : GetUsersLeaveRequests(userId)
  \/ \E userId \in UserIds, payload \in LeavePayloads :
       RequestLeave(userId, payload)
  \/ \E id \in LeaveIds : DeleteLeave(id)
  \/ \E id \in LeaveIds, status \in StatusInputs : UpdateLeaveStatus(id, status)

SpecNoEdit == Init /\ [][NextNoEdit]_vars

\* ------------------------------------------------------------------- claims
\* what the claims say of a range, written out from the words of the spec
InCurrentYear(date) == 0 <= date /\ date < YearLength

\* round(|b - a| / oneDay), halves going up, and at least 1
Duration(a, b) ==
  LET h == Abs(b - a)
      whole == h \div oneDay
      rest == h % oneDay
      rounded == IF 2 * rest >= oneDay THEN whole + 1 ELSE whole
  IN IF rounded < 1 THEN 1 ELSE rounded

\* inclusive-boundary overlap of [s1,e1] and [s2,e2]
RangesOverlap(s1, e1, s2, e2) == ~(e1 < s2 \/ s1 > e2)

OverlapsStored(userId, payload) ==
  \E l \in DOMAIN leaveStorage :
    /\ leaveStorage[l].userId = userId
    /\ RangesOverlap(leaveStorage[l].startDate, leaveStorage[l].endDate,
                     payload.startDate, payload.endDate)

NextLeaveId == MaxUsers + issuedLeaves + 1

\* the payloads with start < end and both dates in the current year
ValidRanges ==
  {p \in LeavePayloads :
     /\ p.startDate < p.endDate
     /\ InCurrentYear(p.startDate) /\ InCurrentYear(p.endDate)}

\* C1: requestLeave for an existing user with balance B, start < end, both
\* dates in the current year, duration D <= B and no overlap with a stored
\* request of that user succeeds, stores exactly one new request, PENDING
\* with days = D, and leaves the user's availableDays at B - D.
C1_RequestLeaveDebits ==
  \A userId \in DOMAIN userStorage, payload \in ValidRanges :
    ( /\ Duration(payload.startDate, payload.endDate)
           <= userStorage[userId].availableDays
      /\ ~OverlapsStored(userId, payload) )
    => LET D == Duration(payload.startDate, payload.endDate)
           B == userStorage[userId].availableDays
           r == requestLeave(userStorage, leaveStorage, NextLeaveId,
                             userId, payload)
       IN /\ r.res = Ok
          /\ NextLeaveId \notin DOMAIN leaveStorage
          /\ r.leaves =
               Insert(leaveStorage, NextLeaveId,
                      [userId |-> userId, status |-> PENDING, days |-> D,
                       startDate |-> payload.startDate,
                       endDate |-> payload.endDate])
          /\ r.users = [userStorage EXCEPT ![userId].availableDays = B - D]

\* a request has just been created and charged
C1_Witness ==
  /\ last.op = "requestLeave" /\ last.res = Ok
  /\ \E l \in last.ret, B \in last.bal :
       /\ Has(leaveStorage, l) /\ leaveStorage[l].status = PENDING
       /\ Has(userStorage, leaveStorage[l].userId)
       /\ userStorage[leaveStorage[l].userId].availableDays
            = B - leaveStorage[l].days

\* C2: rejecting a request right after requestLeave created it puts the
\* owner's availableDays back to what it was before the request was created.
C2_RejectRestoresBalance ==
  [][\A id \in Ids :
       ( /\ last.op = "requestLeave" /\ last.res = Ok /\ last.ret = {id}
         /\ UpdateLeaveStatus(id, REJECTED) )
       => \A B \in last.bal :
            /\ Has(userStorage', leaveStorage[id].userId)
            /\ userStorage'[leaveStorage[id].userId].availableDays = B
    ]_vars

\* C3: two consecutive updateLeaveStatus calls on request r with statuses
\* other than REJECTED debit the owner twice: B - D after the first call,
\* B - 2*D after the second.
C3_DoubleDebit ==
  [][\A id \in Ids, s2 \in StatusInputs \ {REJECTED} :
       ( /\ last.op = "updateLeaveStatus" /\ last.res = Ok /\ last.ret = {id}
         /\ Has(leaveStorage, id) /\ leaveStorage[id].status # REJECTED
         /\ last.bal # {}
         /\ UpdateLeaveStatus(id, s2) )
       => \A B \in last.bal :
            LET owner == leaveStorage[id].userId
                D == leaveStorage[id].days
            IN /\ userStorage[owner].availableDays = B - D
               /\ userStorage'[owner].availableDays = B - 2 * D
    ]_vars

\* C4: every stored user has availableDays >= 0.
C4_BalanceNonNegative ==
  \A u \in DOMAIN userStorage : userStorage[u].availableDays >= 0

\* C5: no two distinct stored users have the same email.
C5_EmailUnique ==
  \A u, v \in DOMAIN userStorage :
    u # v => userStorage[u].email # userStorage[v].email

\* C6: a requestLeave that passes the earlier validation steps and whose
\* range overlaps a stored request of the same user, a shared boundary
\* instant included, fails with the overlap error and changes no store.
C6_OverlapRejected ==
  \A userId \in DOMAIN userStorage, payload \in ValidRanges :
    ( /\ Duration(payload.startDate, payload.endDate)
           <= userStorage[userId].availableDays
      /\ OverlapsStored(userId, payload) )
    => LET r == requestLeave(userStorage, leaveStorage, NextLeaveId,
                             userId, payload)
       IN /\ r.res = "Overlap"
          /\ r.users = userStorage
          /\ r.leaves = leaveStorage

\* a request has just been refused for overlapping a stored one, which the
\* refused call left in place
C6_Witness ==
  /\ last.op = "requestLeave" /\ last.res = "Overlap"
  /\ \E l \in DOMAIN leaveStorage : Has(userStorage, leaveStorage[l].userId)

\* C7: requestLeave for an existing user with balance B and a valid in-year
\* range of duration D > B fails with the insufficient-balance error, stores
\* no request and leaves availableDays at B.
C7_InsufficientBalance ==
  \A userId \in DOMAIN userStorage, payload \in ValidRanges :
    ( /\ Duration(payload.startDate, payload.endDate)
           > userStorage[userId].availableDays )
    => LET r == requestLeave(userStorage, leaveStorage, NextLeaveId,
                             userId, payload)
       IN /\ r.res = "ExceedingAvailableDays"
          /\ r.leaves = leaveStorage
          /\ r.users = userStorage

\* a request has just been refused for exceeding the balance
C7_Witness ==
  /\ last.op = "requestLeave" /\ last.res = "ExceedingAvailableDays"
  /\ userStorage # <<>>

\* the result tags of the entry points that take the identifier of a stored
\* record, for one identifier: getUser, deleteUser and updateUser with the
\* payloads of P; updateLeave, deleteLeave and updateLeaveStatus with every
\* payload and status
UserLookupResults(id, P) ==
  {getUser(userStorage, id), deleteUser(userStorage, id).res} \cup
  {updateUser(userStorage, id, up).res : up \in P}

LeaveLookupResults(id) ==
  {deleteLeave(leaveStorage, id).res} \cup
  {updateLeave(leaveStorage, id, lp).res : lp \in LeavePayloads} \cup
  {updateLeaveStatus(userStorage, leaveStorage, id, s).res : s \in StatusInputs}

FilledIn == {up \in UserPayloads : up.name # "" /\ up.email # ""}

\* C8 as amended: a malformed identifier gets the malformed-identifier error
\* from all six entry points whatever the payload; a well-formed identifier
\* absent from the store gets the not-found error, from updateUser provided
\* the payload's name and email are not empty.
C8_LookupErrors ==
  \A id \in Ids :
    /\ id = MalformedId =>
         /\ UserLookupResults(id, UserPayloads) = {"InvalidUserId"}
         /\ LeaveLookupResults(id) = {"InvalidLeaveId"}
    /\ (id # MalformedId /\ id \notin DOMAIN userStorage) =>
         UserLookupResults(id, FilledIn) = {"UserNotFound"}
    /\ (id # MalformedId /\ id \notin DOMAIN leaveStorage) =>
         LeaveLookupResults(id) = {"LeaveNotFound"}

\* C8: the same for any payload.
C8_LookupErrorsAnyPayload ==
  \A id \in Ids :
    /\ id = MalformedId =>
         /\ UserLookupResults(id, UserPayloads) = {"InvalidUserId"}
         /\ LeaveLookupResults(id) = {"InvalidLeaveId"}
    /\ (id # MalformedId /\ id \notin DOMAIN userStorage) =>
         UserLookupResults(id, UserPayloads) = {"UserNotFound"}
    /\ (id # MalformedId /\ id \notin DOMAIN leaveStorage) =>
         LeaveLookupResults(id) = {"LeaveNotFound"}

\* updateUser has just answered not-found: it was called with a well-formed
\* identifier that is not in the store and a filled-in payload
C8_Witness ==
  /\ last.op = "updateUser" /\ last.res = "UserNotFound"
  /\ userStorage # <<>>

Owners == {leaveStorage[l].userId : l \in DOMAIN leaveStorage}

\* C9: where requests of two or more users are stored, getUsersLeaveRequests
\* with a well-formed userId answers exactly the requests whose userId is
\* the one asked for.
C9_OwnRequestsOnly ==
  Cardinality(Owners) >= 2 =>
    \A userId \in Ids \ {MalformedId} :
      LET r == getUsersLeaveRequests(leaveStorage, userId) IN
      /\ r.res = Ok
      /\ r.ret = {l \in DOMAIN leaveStorage : leaveStorage[l].userId = userId}

\* C10: every stored leave request has a status in {PENDING, APPROVED,
\* REJECTED}.
C10_StatusInEnum ==
  \A l \in DOMAIN leaveStorage : leaveStorage[l].status \in LeaveStatus

\* C11: every stored leave request has startDate strictly before endDate.
C11_StartBeforeEnd ==
  \A l \in DOMAIN leaveStorage :
    leaveStorage[l].startDate < leaveStorage[l].endDate

\* every instant a payload carries
Instants == {p.startDate : p \in LeavePayloads} \cup
            {p.endDate : p \in LeavePayloads}

\* findDiffInDays on every pair of instants: the rule, symmetry, equal dates
DurationRuleOfPairs ==
  \A a, b \in Instants :
    /\ findDiffInDays(a, b) = Duration(a, b)
    /\ findDiffInDays(a, b) = findDiffInDays(b, a)
    /\ a = b => findDiffInDays(a, b) = 1

\* C12: findDiffInDays(a, b) = max(1, round(|b - a| / oneDay)), halves
\* rounding up, for all instants a, b; it is symmetric and 1 when a = b; and
\* every stored request has days >= 1 and days equal to the duration of its
\* stored range.
C12_DurationRule ==
  /\ DurationRuleOfPairs
  /\ \A l \in DOMAIN leaveStorage :
       /\ leaveStorage[l].days >= 1
       /\ leaveStorage[l].days =
            Duration(leaveStorage[l].startDate, leaveStorage[l].endDate)

\* updateLeave has just stored a range of a whole number of days and a half,
\* charged as the next whole day
C12_Witness ==
  /\ last.op = "updateLeave" /\ last.res = Ok
  /\ \E l \in last.ret :
       /\ 2 * ((leaveStorage[l].endDate - leaveStorage[l].startDate) % oneDay)
            = oneDay
       /\ leaveStorage[l].days >= 2

\* C13: requestLeave reports the first violation in the order: user does not
\* exist (a malformed id, then an absent id), start >= end, a date outside
\* the current year, duration < 1, duration > availableDays, overlap with a
\* request of the same user; each has its own error, a request that exceeds
\* the balance and overlaps reports the balance, and a failing call leaves
\* both stores as they were.
FirstViolation(userId, payload) ==
  LET D == Duration(payload.startDate, payload.endDate) IN
  IF userId = MalformedId THEN "InvalidUserId"
  ELSE IF userId \notin DOMAIN userStorage THEN "UserNotFoundForLeave"
  ELSE IF payload.startDate >= payload.endDate THEN "StartBeforeEnd"
  ELSE IF ~(InCurrentYear(payload.startDate) /\ InCurrentYear(payload.endDate))
    THEN "NotCurrentYear"
  ELSE IF D < 1 THEN "AtLeastOneDay"
  ELSE IF D > userStorage[userId].availableDays THEN "ExceedingAvailableDays"
  ELSE IF OverlapsStored(userId, payload) THEN "Overlap"
  ELSE Ok

C13_ValidationOrder ==
  /\ [](\A userId \in UserIds, payload \in LeavePayloads :
          LET r == requestLeave(userStorage, leaveStorage, NextLeaveId, userId,
                                payload)
              first == FirstViolation(userId, payload)
          IN IF first = Ok
               THEN r.res = Ok
               ELSE r = [res |-> first, users |-> userStorage,
                         leaves |-> leaveStorage])
  /\ [][(last'.op = "requestLeave" /\ last'.res # Ok) =>
         userStorage' = userStorage /\ leaveStorage' = leaveStorage]_vars

\* a call has just been refused for the balance in a state where some request
\* of a stored user both exceeds the balance and overlaps a stored request
C13_Witness ==
  /\ last.op = "requestLeave" /\ last.res = "ExceedingAvailableDays"
  /\ \E userId \in DOMAIN userStorage, payload \in ValidRanges :
       /\ Duration(payload.startDate, payload.endDate)
            > userStorage[userId].availableDays
       /\ OverlapsStored(userId, payload)

\* C14: updateLeaveStatus on a request whose owner is no longer in the user
\* store does not return success: the adjustment that could not be applied is
\* reported to the caller.
C14_OwnerGoneReported ==
  \A l \in DOMAIN leaveStorage :
    (/\ last.op = "updateLeaveStatus"
     /\ last.ret = {l}
     /\ leaveStorage[l].userId \notin DOMAIN userStorage)
    => last.res # Ok

\* C15: updateLeaveStatus(id, s) on a stored request, whatever its current
\* status and for each s of PENDING, APPROVED, REJECTED (s equal to the
\* current status included), succeeds, stores status s and leaves the
\* request's userId, dates and days, and every other request, as they were.
C15_AnyToAnyTransition ==
  \A id \in DOMAIN leaveStorage, s \in LeaveStatus :
    LET r == updateLeaveStatus(userStorage, leaveStorage, id, s)
    IN /\ r.res = Ok
       /\ r.leaves = [leaveStorage EXCEPT ![id].status = s]

\* a request that was rejected (its owner's balance was back at the default
\* before the call) has just been made PENDING again and debited once more
C15_Witness ==
  /\ last.op = "updateLeaveStatus" /\ last.res = Ok
  /\ last.bal = {DEFAULT_AVAILABLE_DAYS}
  /\ \E id \in last.ret :
       /\ leaveStorage[id].status = PENDING
       /\ leaveStorage[id].userId \in DOMAIN userStorage
       /\ userStorage[leaveStorage[id].userId].availableDays
            = DEFAULT_AVAILABLE_DAYS - leaveStorage[id].days

\* C16: a deleteLeave call that succeeds removes exactly the request it names
\* from the leave store and leaves the user store, so the owner's
\* availableDays, as it was, whatever the request's status.
C16_DeleteLeaveFrame ==
  [][(last'.op = "deleteLeave" /\ last'.res = Ok) =>
       /\ userStorage' = userStorage
       /\ \E id \in last'.ret :
            /\ id \in DOMAIN leaveStorage
            /\ leaveStorage' = Remove(leaveStorage, id)]_vars

\* the only request ever made has just been deleted and its owner, created
\* with the default balance, is still a day short of it
C16_Witness ==
  /\ last.op = "deleteLeave" /\ last.res = Ok
  /\ calls = 3 /\ issuedLeaves = 1 /\ leaveStorage = <<>>
  /\ \E u \in DOMAIN userStorage :
       userStorage[u].availableDays = DEFAULT_AVAILABLE_DAYS - 1

\* what updateLeave does to the leave store for a stored request
EditedLeaves(id, payload) ==
  [leaveStorage EXCEPT
     ![id] = [@ EXCEPT !.startDate = payload.startDate,
                       !.endDate = payload.endDate,
                       !.days = Duration(payload.startDate, payload.endDate)]]

\* C17: updateLeave on a stored request succeeds for every range (overlapping
\* another request of the owner, outside the current year, longer than the
\* owner's balance), overwrites startDate and endDate, sets days to the
\* recomputed duration, keeps the request's status and userId and every other
\* request, and leaves the user store as it was.
C17_UpdateLeaveFrame ==
  /\ [](\A id \in DOMAIN leaveStorage, payload \in LeavePayloads :
          LET r == updateLeave(leaveStorage, id, payload)
          IN r.res = Ok /\ r.leaves = EditedLeaves(id, payload))
  /\ [][last'.op = "updateLeave" => userStorage' = userStorage]_vars

\* updateLeave has just stored a range that starts before the current year,
\* overlaps another request of the same owner and is longer than the owner's
\* balance
C17_Witness ==
  /\ last.op = "updateLeave" /\ last.res = Ok
  /\ \E id \in last.ret :
       LET leave == leaveStorage[id] IN
       /\ ~InCurrentYear(leave.startDate)
       /\ leave.userId \in DOMAIN userStorage
       /\ leave.days > userStorage[leave.userId].availableDays
       /\ \E other \in DOMAIN leaveStorage \ {id} :
            /\ leaveStorage[other].userId = leave.userId
            /\ RangesOverlap(leave.startDate, leave.endDate,
                             leaveStorage[other].startDate,
                             leaveStorage[other].endDate)

\* the stored requests whose owner is stored with a balance of exactly 0
OwnerAtZero ==
  {id \in DOMAIN leaveStorage :
     /\ leaveStorage[id].userId \in DOMAIN userStorage
     /\ userStorage[leaveStorage[id].userId].availableDays = 0}

\* C18: the ledger never changes a stored balance of exactly 0: when the
\* owner's availableDays is 0, updateLeaveStatus with any target status
\* returns success, stores the new status and leaves the user store as it
\* was; and a step that takes a stored user's balance from 0 to another value
\* is an updateUser call.
C18_ZeroBalanceFrozen ==
  /\ [](\A id \in OwnerAtZero, s \in StatusInputs :
          LET r == updateLeaveStatus(userStorage, leaveStorage, id, s)
          IN /\ r.res = Ok
             /\ r.users = userStorage
             /\ r.leaves[id].status = s)
  /\ [][\A u \in DOMAIN userStorage :
          (/\ userStorage[u].availableDays = 0
           /\ u \in DOMAIN userStorage'
           /\ userStorage'[u].availableDays # 0)
          => last'.op = "updateUser"]_vars

\* a request has just been rejected whose owner had a balance of 0 before the
\* call and still has it
C18_Witness ==
  /\ last.op = "updateLeaveStatus" /\ last.res = Ok /\ last.bal = {0}
  /\ \E id \in last.ret :
       /\ id \in OwnerAtZero
       /\ leaveStorage[id].status = REJECTED

\* C19: every call that returns an error leaves the user store and the leave
\* store exactly as they were; a call that changes either store returns
\* success.
C19_ErrorsWriteNothing ==
  [][last'.res # Ok => userStorage' = userStorage /\ leaveStorage' = leaveStorage]_vars

\* requestLeave has just been refused for an overlap, with users and requests
\* in the stores
C19_Witness ==
  /\ last.op = "requestLeave" /\ last.res = "Overlap"
  /\ userStorage # <<>> /\ leaveStorage # <<>>

\* C20: when updateLeave is never called, no two distinct stored requests with
\* the same userId have ranges that overlap under the inclusive-boundary test,
\* whatever their statuses (a REJECTED request still blocks its range).
C20_NoOverlapWithoutEdit ==
  \A a, b \in DOMAIN leaveStorage :
    (a # b /\ leaveStorage[a].userId = leaveStorage[b].userId)
    => ~RangesOverlap(leaveStorage[a].startDate, leaveStorage[a].endDate,
                      leaveStorage[b].startDate, leaveStorage[b].endDate)

\* two requests of one user are stored, one of them REJECTED
C20_Witness ==
  \E a, b \in DOMAIN leaveStorage :
    /\ a # b
    /\ leaveStorage[a].userId = leaveStorage[b].userId
    /\ leaveStorage[a].status = REJECTED

====
